---- MODULE Spec2Model ----
(***************************************************************************)
(* wiretime: a probe is transmitted once per period, the kernel reports    *)
(* three transmit timestamps per probe through the socket's error queue,   *)
(* and the main loop turns the record of the previous probe into a latency *)
(* sample, a snapshot request and the running statistics.                  *)
(*                                                                         *)
(* TLC's integers are 32 bits wide.  Every nanosecond quantity of the      *)
(* model stays below 2^31: seconds differ by at most one inside a          *)
(* difference, and LONG_MAX / LONG_MIN stand for the limits.h extremes,    *)
(* which every latency of the model lies strictly between.                 *)
(***************************************************************************)
EXTENDS Integers, Sequences, FiniteSets, TLC

(* ------------------------------------------------------------------ *)
(* Program constants                                                   *)
(* ------------------------------------------------------------------ *)
NSAMPLES == 1024
NBINS == 12
BIN0 == 32
BILLION == 1000000000
LONG_MAX == 2147483647
LONG_MIN == -2147483647
EXIT_SUCCESS == 0
EarlyLimit == 50000

(* ------------------------------------------------------------------ *)
(* Bounds of the model                                                 *)
(* ------------------------------------------------------------------ *)
\* the main loop stops starting iterations once num_packets reaches the cap
MaxCycles == 3
\* the cap of the long run, which fills the sample window and wraps it
MaxLongCycles == 1027
\* synchronize calls followed by the clock specification
MaxSyncCalls == 4
\* waits interrupted by a signal
MaxInterrupts == 2
\* probes written while the error queue is followed
MaxProbes == 4
\* notifications the error queue holds at once
MaxQueue == 2

(* ------------------------------------------------------------------ *)
(* struct timespec                                                     *)
(* ------------------------------------------------------------------ *)
T(s, ns) == [tv_sec |-> s, tv_nsec |-> ns]
Zero == T(0, 0)
Stages == 0 .. 2

\* memset(tstamps, 0, sizeof(tstamps))
EmptyRecord == [i \in Stages |-> Zero]

\* C's integer division, which truncates toward zero (b > 0)
CDiv(a, b) == IF a >= 0 THEN a \div b ELSE -((-a) \div b)

Min(a, b) == IF a < b THEN a ELSE b

(* ------------------------------------------------------------------ *)
(* Notifications of the error queue                                    *)
(* A message carries up to two control messages: the scm_timestamping  *)
(* triple ts[0..2] and the sock_extended_err with ee_info.  stage is   *)
(* what the kernel reports with it (0 scheduler, 1 driver, 2 wire,     *)
(* -1 nothing the program asked for); the program never reads it.      *)
(* ------------------------------------------------------------------ *)
Msg(info, t0, t2, hasTs, hasErr, st) ==
    [ee_info |-> info, ts |-> [i \in Stages |-> IF i = 0 THEN t0 ELSE IF i = 2 THEN t2 ELSE Zero],
     cmsgTs |-> hasTs, cmsgErr |-> hasErr, stage |-> st]

SchedMsg(t) == Msg("SCM_TSTAMP_SCHED", t, Zero, TRUE, TRUE, 0)
SwMsg(t) == Msg("SCM_TSTAMP_SND", t, Zero, TRUE, TRUE, 1)
HwMsg(t) == Msg("SCM_TSTAMP_SND", Zero, t, TRUE, TRUE, 2)

\* timestamps the kernel may report for each stage
SchedTimes == {T(0, 0), T(1, 0), T(1, 1500)}
DrvTimes == {T(0, 50000), T(1, 100)}
HwTimes == {T(0, 120000), T(1, 0), T(1, 31000), T(1, 32000), T(1, 100500),
            T(1, 150000), T(1, 32767000), T(1, 32768000)}

\* messages the program ignores
OddMessages ==
    { Msg("SCM_TSTAMP_ACK", T(1, 0), Zero, TRUE, TRUE, -1),
      Msg("SCM_TSTAMP_SND", Zero, Zero, TRUE, TRUE, -1),
      Msg("SCM_TSTAMP_SCHED", T(1, 0), Zero, FALSE, TRUE, -1),
      Msg("SCM_TSTAMP_SND", T(1, 100), Zero, TRUE, FALSE, -1) }

Messages ==
    {SchedMsg(t) : t \in SchedTimes} \cup {SwMsg(t) : t \in DrvTimes}
        \cup {HwMsg(t) : t \in HwTimes} \cup OddMessages

Thresholds == {0, 100}

VARIABLES
    pc,           \* position of the process in main
    threshold,    \* argv[4]
    snapshot,     \* TRUE iff fopen of the snapshot file succeeded
    seqid,        \* uint16_t seqid
    payload,      \* the sequence number in buf[30..31]
    num_packets,
    min_lat,
    max_lat,
    samples,
    bins,
    tstamps,
    cyc,          \* what the current iteration's evaluation wrote and computed
    report,       \* what print_statistics wrote to stdout
    exitStatus,   \* -1 while the process runs
    stoppedAt,    \* where in the loop the signal arrived, "" before
    injected,     \* per stage, the timestamp the kernel reported since the last reset
    fed,          \* the latencies written to the sample window, in order
    firstSlot,    \* the slot of the first of them, -1 before
    latEvals,     \* evaluations that produced a latency so far
    firstFed,     \* TRUE iff the latency of the first such evaluation reached update_statistics
    inExtrema,    \* latencies compared with min_lat and max_lat so far
    period,       \* argv[2], nanoseconds
    addend,       \* argv[3], nanoseconds
    clock,        \* CLOCK_MONOTONIC
    spc,          \* position of the process in synchronize
    now,
    next,
    error,        \* <<>> while the local variable holds no value, else <<its value>>
    syncCalls,    \* calls of synchronize so far
    starts,       \* the clock at the last two returns of synchronize
    interrupts,   \* waits that failed with EINTR so far
    errq,         \* the socket's error queue, oldest notification first
    pending,      \* notifications the kernel has yet to queue
    probes,       \* probes written so far
    io            \* how the last wait and the last write of the loop ended

mainVars == <<pc, threshold, snapshot, seqid, payload, num_packets, min_lat, max_lat,
              samples, bins, tstamps, cyc, report, exitStatus, stoppedAt, injected,
              fed, firstSlot, latEvals, firstFed, inExtrema>>

stats == <<min_lat, max_lat, samples, bins>>

syncVars == <<period, addend, clock, spc, now, next, error, syncCalls, starts, interrupts>>

sockVars == <<errq, pending, probes, io>>

vars == <<mainVars, syncVars, sockVars>>

(* ------------------------------------------------------------------ *)
(* recv_timestamp: one recvmsg(MSG_ERRQUEUE) and the stage rule        *)
(* ------------------------------------------------------------------ *)
RecvTimestamp(rec, m) ==
    IF ~(m.cmsgTs /\ m.cmsgErr) THEN rec
    ELSE IF m.ee_info = "SCM_TSTAMP_SCHED" THEN [rec EXCEPT ![0] = m.ts[0]]
    ELSE IF m.ee_info = "SCM_TSTAMP_SND" /\ m.ts[0].tv_sec # 0 THEN [rec EXCEPT ![1] = m.ts[0]]
    ELSE IF m.ee_info = "SCM_TSTAMP_SND" /\ m.ts[2].tv_sec # 0 THEN [rec EXCEPT ![2] = m.ts[2]]
    ELSE rec

(* ------------------------------------------------------------------ *)
(* The evaluation of the record in main                                *)
(* ------------------------------------------------------------------ *)
\* tstamps[0].tv_sec && tstamps[1].tv_sec && tstamps[2].tv_sec
AllPresent(rec) == rec[0].tv_sec # 0 /\ rec[1].tv_sec # 0 /\ rec[2].tv_sec # 0

\* mutant: the three tests chained with else, so only the first absent stage is reported
MissingDiagnostics_FirstOnly(rec) ==
    IF rec[0].tv_sec = 0 THEN {0} ELSE IF rec[1].tv_sec = 0 THEN {1}
    ELSE IF rec[2].tv_sec = 0 THEN {2} ELSE {}

\* the stages i for which "MISSING TIMESTAMP i" is written
MissingDiagnostics(rec) == {i \in Stages : rec[i].tv_sec = 0}

\* writes of "1\n" to the snapshot file on the missing path
SnapshotOnMissing(snap) == IF snap THEN 1 ELSE 0

Latency(rec) ==
    CDiv((rec[2].tv_sec - rec[0].tv_sec) * BILLION + (rec[2].tv_nsec - rec[0].tv_nsec), 1000)

\* mutant: latency >= threshold
SnapshotOnLatency_AtThreshold(snap, thr, lat) == IF snap /\ thr # 0 /\ lat >= thr THEN 1 ELSE 0

\* writes of "1\n" to the snapshot file on the latency path
SnapshotOnLatency(snap, thr, lat) == IF snap /\ thr # 0 /\ lat > thr THEN 1 ELSE 0

\* mutant: num_packets > 0, which counts the first completed cycle
Counted_FromFirst(np) == np > 0

\* if (num_packets > 1) update_statistics(latency)
Counted(np) == np > 1

\* mutant: the missing path falls through to ++seqid, memset and ++num_packets
AfterMissing_FallThrough == "adv_seq"

\* continue: the missing path goes back to the top of the loop
AfterMissing == "top"

NoCycle == [evaluated |-> FALSE, diag |-> {}, snaps |-> 0, hasLat |-> FALSE, lat |-> 0]

(* ------------------------------------------------------------------ *)
(* update_statistics                                                   *)
(* ------------------------------------------------------------------ *)
NewMin(lat, m) == IF lat < m THEN lat ELSE m
NewMax(lat, m) == IF lat > m THEN lat ELSE m

\* num_packets & (NSAMPLES - 1), NSAMPLES being a power of two
SampleSlot(np) == np % NSAMPLES

RECURSIVE BinScan(_, _)
BinScan(lat, i) ==
    IF i >= NBINS - 1 THEN NBINS - 1
    ELSE IF lat < BIN0 * (2 ^ i) THEN i
    ELSE BinScan(lat, i + 1)

\* mutant: latency <= bound, which moves every boundary value one bucket down
RECURSIVE BinScan_Inclusive(_, _)
BinScan_Inclusive(lat, i) ==
    IF i >= NBINS - 1 THEN NBINS - 1
    ELSE IF lat <= BIN0 * (2 ^ i) THEN i
    ELSE BinScan_Inclusive(lat, i + 1)

BinIndex_Inclusive(lat) == BinScan_Inclusive(lat, 0)

BinIndex(lat) == BinScan(lat, 0)

(* ------------------------------------------------------------------ *)
(* print_statistics                                                    *)
(* ------------------------------------------------------------------ *)
RECURSIVE Insert(_, _)
Insert(sq, x) ==
    IF sq = <<>> THEN <<x>>
    ELSE IF x <= Head(sq) THEN <<x>> \o sq
    ELSE <<Head(sq)>> \o Insert(Tail(sq), x)

RECURSIVE SortAsc(_)
SortAsc(sq) == IF sq = <<>> THEN <<>> ELSE Insert(SortAsc(Tail(sq)), Head(sq))

\* qsort(samples, n, ...): the first n entries in ascending order
Qsort(smp, n) == SortAsc([i \in 1 .. n |-> smp[i - 1]])

\* if (num_packets) --num_packets
ReportedPackets(np) == IF np # 0 THEN np - 1 ELSE 0

\* n = num_packets > NSAMPLES ? NSAMPLES : num_packets
MedianEntries(np) == IF np > NSAMPLES THEN NSAMPLES ELSE np

\* the histogram rows as printed: high starts at BIN0 and doubles, low is the previous
\* high plus one
RECURSIVE RowHigh(_)
RowHigh(i) == IF i = 0 THEN BIN0 ELSE 2 * RowHigh(i - 1)

RowLow(i) == IF i = 0 THEN 0 ELSE RowHigh(i - 1) + 1

\* "%5ld - %5ld us" for the rows 0 .. NBINS - 2 and "> %5ld us" with low - 1 for the last
PrintedRows ==
    [i \in 0 .. NBINS - 1 |->
        IF i < NBINS - 1 THEN [open |-> FALSE, low |-> RowLow(i), high |-> RowHigh(i)]
        ELSE [open |-> TRUE, low |-> RowLow(i) - 1, high |-> LONG_MAX]]

NoReport == [printed |-> 0, count |-> 0, full |-> FALSE, n |-> 0,
             min |-> 0, median |-> 0, max |-> 0, sorted |-> <<>>, rows |-> <<>>]

(* ------------------------------------------------------------------ *)
(* Initial state: setup has completed, the loop is about to start      *)
(* ------------------------------------------------------------------ *)
InitMain(thr, snap) ==
    /\ pc = "top"
    /\ threshold = thr
    /\ snapshot = snap
    /\ seqid = 0
    /\ payload = 0
    /\ num_packets = 0
    /\ min_lat = LONG_MAX
    /\ max_lat = LONG_MIN
    /\ samples = [i \in 0 .. NSAMPLES - 1 |-> 0]
    /\ bins = [i \in 0 .. NBINS - 1 |-> 0]
    /\ tstamps = EmptyRecord
    /\ cyc = NoCycle
    /\ report = NoReport
    /\ exitStatus = -1
    /\ stoppedAt = ""
    /\ injected = [i \in Stages |-> <<>>]
    /\ fed = <<>>
    /\ firstSlot = -1
    /\ latEvals = 0
    /\ firstFed = FALSE
    /\ inExtrema = 0

\* synchronize has not been called; the clock reads c
InitSync(p, a, c) ==
    /\ period = p
    /\ addend = a
    /\ clock = c
    /\ spc = "idle"
    /\ now = Zero
    /\ next = Zero
    /\ error = <<>>
    /\ syncCalls = 0
    /\ starts = <<>>
    /\ interrupts = 0

\* the socket is connected, nothing was written and the error queue is empty
InitSock ==
    /\ errq = <<>>
    /\ pending = {}
    /\ probes = 0
    /\ io = [wait |-> "none", write |-> "none"]

Init ==
    /\ \E thr \in Thresholds, snap \in BOOLEAN : InitMain(thr, snap)
    /\ InitSync(250000000, 100000, T(0, 0))
    /\ InitSock

(* ------------------------------------------------------------------ *)
(* The loop of main, one action per step                               *)
(* ------------------------------------------------------------------ *)
LoopPcs == {"top", "sync", "write", "eval", "upd_minmax", "upd_sample", "upd_bins",
            "adv_seq", "adv_reset", "adv_count"}

\* *(uint16_t *)&buf[30] = htons(seqid), and synchronize is entered
LoopTop(cap) ==
    /\ pc = "top"
    /\ num_packets < cap
    /\ payload' = seqid
    /\ cyc' = NoCycle
    /\ pc' = "sync"
    /\ UNCHANGED <<threshold, snapshot, seqid, num_packets, stats, tstamps, report,
                   exitStatus, stoppedAt, injected, fed, firstSlot, latEvals, firstFed,
                   inExtrema, syncVars, sockVars>>

\* inside synchronize: pselect reports readiness and recv_timestamp reads m
Notify(m) ==
    /\ pc = "sync"
    /\ tstamps' = RecvTimestamp(tstamps, m)
    /\ injected' = IF m.stage \in Stages
                     THEN [injected EXCEPT ![m.stage] = <<m.ts[IF m.stage = 2 THEN 2 ELSE 0]>>]
                     ELSE injected
    /\ UNCHANGED <<pc, threshold, snapshot, seqid, payload, num_packets, stats, cyc, report,
                   exitStatus, stoppedAt, fed, firstSlot, latEvals, firstFed,
                   inExtrema, syncVars, sockVars>>

\* synchronize returns
SyncReturn ==
    /\ pc = "sync"
    /\ pc' = "write"
    /\ UNCHANGED <<threshold, snapshot, seqid, payload, num_packets, stats, tstamps, cyc,
                   report, exitStatus, stoppedAt, injected, fed, firstSlot, latEvals, firstFed,
                   inExtrema, syncVars, sockVars>>

\* write(sockfd, buf, sizeof(buf)); a failed or short write is only logged
Transmit ==
    /\ pc = "write"
    /\ pc' = "eval"
    /\ UNCHANGED <<threshold, snapshot, seqid, payload, num_packets, stats, tstamps, cyc,
                   report, exitStatus, stoppedAt, injected, fed, firstSlot, latEvals, firstFed,
                   inExtrema, syncVars, sockVars>>

\* if (num_packets) { ... } up to the call of update_statistics
Evaluate ==
    /\ pc = "eval"
    /\ IF num_packets = 0
         THEN /\ pc' = "adv_seq"
              /\ UNCHANGED <<cyc, latEvals>>
         ELSE IF ~AllPresent(tstamps)
                THEN /\ cyc' = [evaluated |-> TRUE, diag |-> MissingDiagnostics(tstamps),
                                snaps |-> SnapshotOnMissing(snapshot),
                                hasLat |-> FALSE, lat |-> 0]
                     /\ pc' = AfterMissing
                     /\ UNCHANGED latEvals
                ELSE LET latency == Latency(tstamps) IN
                     /\ cyc' = [evaluated |-> TRUE, diag |-> {},
                                snaps |-> SnapshotOnLatency(snapshot, threshold, latency),
                                hasLat |-> TRUE, lat |-> latency]
                     /\ latEvals' = latEvals + 1
                     /\ pc' = IF Counted(num_packets) THEN "upd_minmax" ELSE "adv_seq"
    /\ UNCHANGED <<threshold, snapshot, seqid, payload, num_packets, stats, tstamps,
                   report, exitStatus, stoppedAt, injected, fed, firstSlot, firstFed,
                   inExtrema, syncVars, sockVars>>

\* update_statistics: the running extrema
UpdMinMax ==
    /\ pc = "upd_minmax"
    /\ min_lat' = NewMin(cyc.lat, min_lat)
    /\ max_lat' = NewMax(cyc.lat, max_lat)
    /\ firstFed' = (firstFed \/ latEvals = 1)
    /\ inExtrema' = inExtrema + 1
    /\ pc' = "upd_sample"
    /\ UNCHANGED <<threshold, snapshot, seqid, payload, num_packets, samples, bins, tstamps,
                   cyc, report, exitStatus, stoppedAt, injected, fed, firstSlot, latEvals,
                   syncVars, sockVars>>

\* update_statistics: samples[num_packets & (NSAMPLES - 1)] = latency
UpdSample ==
    /\ pc = "upd_sample"
    /\ samples' = [samples EXCEPT ![SampleSlot(num_packets)] = cyc.lat]
    /\ fed' = Append(fed, cyc.lat)
    /\ firstSlot' = IF fed = <<>> THEN SampleSlot(num_packets) ELSE firstSlot
    /\ pc' = "upd_bins"
    /\ UNCHANGED <<threshold, snapshot, seqid, payload, num_packets, min_lat, max_lat, bins,
                   tstamps, cyc, report, exitStatus, stoppedAt, injected, latEvals, firstFed,
                   inExtrema, syncVars, sockVars>>

\* update_statistics: the histogram
UpdBins ==
    /\ pc = "upd_bins"
    /\ bins' = [bins EXCEPT ![BinIndex(cyc.lat)] = @ + 1]
    /\ pc' = "adv_seq"
    /\ UNCHANGED <<threshold, snapshot, seqid, payload, num_packets, min_lat, max_lat,
                   samples, tstamps, cyc, report, exitStatus, stoppedAt, injected, fed, firstSlot,
                   latEvals, firstFed,
                   inExtrema, syncVars, sockVars>>

\* ++seqid on a uint16_t
AdvSeq ==
    /\ pc = "adv_seq"
    /\ seqid' = (seqid + 1) % 65536
    /\ pc' = "adv_reset"
    /\ UNCHANGED <<threshold, snapshot, payload, num_packets, stats, tstamps, cyc, report,
                   exitStatus, stoppedAt, injected, fed, firstSlot, latEvals, firstFed,
                   inExtrema, syncVars, sockVars>>

\* memset(tstamps, 0, sizeof(tstamps))
AdvReset ==
    /\ pc = "adv_reset"
    /\ tstamps' = EmptyRecord
    /\ injected' = [i \in Stages |-> <<>>]
    /\ pc' = "adv_count"
    /\ UNCHANGED <<threshold, snapshot, seqid, payload, num_packets, stats, cyc, report,
                   exitStatus, stoppedAt, fed, firstSlot, latEvals, firstFed,
                   inExtrema, syncVars, sockVars>>

\* ++num_packets
AdvCount ==
    /\ pc = "adv_count"
    /\ num_packets' = num_packets + 1
    /\ pc' = "top"
    /\ UNCHANGED <<threshold, snapshot, seqid, payload, stats, tstamps, cyc, report,
                   exitStatus, stoppedAt, injected, fed, firstSlot, latEvals, firstFed,
                   inExtrema, syncVars, sockVars>>

(* ------------------------------------------------------------------ *)
(* Termination: SIGINT or SIGTERM, exit, the atexit hook               *)
(* ------------------------------------------------------------------ *)
\* mutant: the handler records the signal and returns to the interrupted loop
SigintHandler_Returns ==
    /\ pc \in LoopPcs
    /\ stoppedAt = ""
    /\ stoppedAt' = pc
    /\ UNCHANGED <<pc, threshold, snapshot, seqid, payload, num_packets, stats, tstamps, cyc,
                   report, exitStatus, injected, fed, firstSlot, latEvals, firstFed,
                   inExtrema, syncVars, sockVars>>

\* the handler runs at any point of the loop and calls exit(EXIT_SUCCESS)
SigintHandler ==
    /\ pc \in LoopPcs
    /\ pc' = "exiting"
    /\ stoppedAt' = pc
    /\ UNCHANGED <<threshold, snapshot, seqid, payload, num_packets, stats, tstamps, cyc,
                   report, exitStatus, injected, fed, firstSlot, latEvals, firstFed,
                   inExtrema, syncVars, sockVars>>

\* exit runs print_statistics, registered with atexit, and the process ends
PrintStatistics ==
    /\ pc = "exiting"
    /\ LET np == ReportedPackets(num_packets)
           n == MedianEntries(np)
           sorted == Qsort(samples, n)
       IN /\ num_packets' = np
          /\ IF np = 0
               THEN /\ report' = [NoReport EXCEPT !.printed = report.printed + 1, !.count = np]
                    /\ UNCHANGED samples
               ELSE /\ samples' = [i \in 0 .. NSAMPLES - 1 |->
                                     IF i < n THEN sorted[i + 1] ELSE samples[i]]
                    /\ report' = [printed |-> report.printed + 1, count |-> np, full |-> TRUE,
                                  n |-> n, min |-> min_lat, median |-> sorted[(n \div 2) + 1],
                                  max |-> max_lat, sorted |-> sorted, rows |-> PrintedRows]
    /\ exitStatus' = EXIT_SUCCESS
    /\ pc' = "done"
    /\ UNCHANGED <<threshold, snapshot, seqid, payload, min_lat, max_lat, bins, tstamps, cyc,
                   stoppedAt, injected, fed, firstSlot, latEvals, firstFed,
                   inExtrema, syncVars, sockVars>>

Next ==
    \/ LoopTop(MaxCycles)
    \/ \E m \in Messages : Notify(m)
    \/ SyncReturn
    \/ Transmit
    \/ Evaluate
    \/ UpdMinMax
    \/ UpdSample
    \/ UpdBins
    \/ AdvSeq
    \/ AdvReset
    \/ AdvCount
    \/ SigintHandler
    \/ PrintStatistics

Spec == Init /\ [][Next]_vars

(* ------------------------------------------------------------------ *)
(* Termination under fairness.  exit does not return and runs the      *)
(* atexit hook: once the handler has called it, print_statistics runs  *)
(* and the process ends.  The loop and the signal are as in Spec; the  *)
(* kernel reports one value per stage, or two for the wire.            *)
(* ------------------------------------------------------------------ *)
LiveMessages ==
    {SchedMsg(T(1, 0)), SwMsg(T(1, 100)), HwMsg(T(1, 31000)), HwMsg(T(1, 150000))}

NextLive ==
    \/ LoopTop(MaxCycles)
    \/ \E m \in LiveMessages : Notify(m)
    \/ SyncReturn
    \/ Transmit
    \/ Evaluate
    \/ UpdMinMax
    \/ UpdSample
    \/ UpdBins
    \/ AdvSeq
    \/ AdvReset
    \/ AdvCount
    \/ SigintHandler
    \/ PrintStatistics

LiveSpec == Init /\ [][NextLive]_vars /\ WF_vars(PrintStatistics)

(* ------------------------------------------------------------------ *)
(* The long run: no signal, threshold 0, no sink, and the probe with   *)
(* sequence number s is reported scheduled at 1.000000000 s and on the *)
(* wire s microseconds later, so every latency names its cycle.  Any   *)
(* of the three notifications may still be missing from a wait.        *)
(* ------------------------------------------------------------------ *)
LongMessages == {SchedMsg(T(1, 0)), SwMsg(T(1, 1)), HwMsg(T(1, 1000 * seqid))}

InitLong == InitMain(0, FALSE) /\ InitSync(250000000, 100000, T(0, 0)) /\ InitSock

NextLong ==
    \/ LoopTop(MaxLongCycles)
    \/ \E m \in LongMessages : Notify(m)
    \/ SyncReturn
    \/ Transmit
    \/ Evaluate
    \/ UpdMinMax
    \/ UpdSample
    \/ UpdBins
    \/ AdvSeq
    \/ AdvReset
    \/ AdvCount

SpecLong == InitLong /\ [][NextLong]_vars

(* ------------------------------------------------------------------ *)
(* synchronize on the clock                                            *)
(* ------------------------------------------------------------------ *)
RECURSIVE normalize(_)
normalize(ts) ==
    IF ts.tv_nsec >= BILLION THEN normalize(T(ts.tv_sec + 1, ts.tv_nsec - BILLION)) ELSE ts

\* the beginning of the next cycle, out of phase by the addend
NextCycle(t, p, a) == normalize(T(t.tv_sec, ((t.tv_nsec \div p) + 1) * p + a))

\* timeout.tv_nsec: the time to next, less a 1024th of it
Timeout(t, nx) ==
    LET rem == (nx.tv_sec - t.tv_sec) * BILLION + (nx.tv_nsec - t.tv_nsec)
    IN rem - CDiv(rem, 1024)

\* now - next in nanoseconds
SyncError(t, nx) == (t.tv_sec - nx.tv_sec) * BILLION + (t.tv_nsec - nx.tv_nsec)

\* the loop repeats while (error < -50000)
TooEarly(e) == e < -EarlyLimit

\* pselect rejects a timeout whose tv_nsec is not in 0 .. 999999999 with EINVAL
ValidTimeout(ns) == 0 <= ns /\ ns < BILLION

\* the monotonic clock ns nanoseconds later
Later(t, ns) == normalize(T(t.tv_sec, t.tv_nsec + ns))

\* clock_gettime, next computed, the loop entered
SyncEnter ==
    /\ spc = "idle"
    /\ syncCalls < MaxSyncCalls
    /\ syncCalls' = syncCalls + 1
    /\ now' = clock
    /\ next' = NextCycle(clock, period, addend)
    /\ error' = <<>>
    /\ spc' = "wait"
    /\ UNCHANGED <<mainVars, sockVars, period, addend, clock, starts, interrupts>>

\* one pass of the loop under negligible load: nothing becomes readable and pselect
\* returns when its timeout has elapsed, or at once with EINVAL; then clock_gettime
\* and the test of the error
SyncWait ==
    /\ spc = "wait"
    /\ LET timeout == Timeout(now, next) IN
       IF ~ValidTimeout(timeout)
         THEN /\ spc' = "failed"
              /\ UNCHANGED <<clock, now, error>>
         ELSE /\ clock' = Later(clock, timeout)
              /\ now' = clock'
              /\ error' = <<SyncError(now', next)>>
              /\ spc' = IF TooEarly(error'[1]) THEN "wait" ELSE "return"
    /\ UNCHANGED <<mainVars, sockVars, period, addend, next, syncCalls, starts, interrupts>>

\* synchronize returns and the probe is written at once
SyncExit ==
    /\ spc \in {"return", "failed"}
    /\ starts' = IF starts = <<>> THEN <<clock>> ELSE <<starts[Len(starts)], clock>>
    /\ spc' = "idle"
    /\ UNCHANGED <<mainVars, sockVars, period, addend, clock, now, next, error, syncCalls, interrupts>>

\* the time into a wait at which a signal may interrupt it, nanoseconds
InterruptAfter == {0, 1000}

\* pselect fails with EINTR and the loop continues at its test, which reads error: a
\* value left by an earlier pass, or none when this is the first pass of the call, and
\* then the test may go either way.  now is not read again.
SyncInterrupted ==
    /\ spc = "wait"
    /\ interrupts < MaxInterrupts
    /\ interrupts' = interrupts + 1
    /\ ValidTimeout(Timeout(now, next))
    /\ \E e \in InterruptAfter :
          /\ e < Timeout(now, next)
          /\ clock' = Later(clock, e)
    /\ IF error = <<>>
         THEN spc' \in {"wait", "return"}
         ELSE spc' = IF TooEarly(error[1]) THEN "wait" ELSE "return"
    /\ UNCHANGED <<mainVars, sockVars, period, addend, now, next, error, syncCalls, starts>>

Periods == {1000000, 250000000, 300000000, 1500000000}
Addends == {0, 100000}
StartClocks == {T(0, 0), T(0, 300000), T(0, 700000123)}

InitClock ==
    /\ InitMain(0, FALSE)
    /\ \E p \in Periods, a \in Addends, c \in StartClocks : InitSync(p, a, c)
    /\ InitSock

NextClock == SyncEnter \/ SyncWait \/ SyncExit

SpecClock == InitClock /\ [][NextClock]_vars

\* the same with waits that a signal may interrupt
NextIntr == SyncEnter \/ SyncWait \/ SyncInterrupted \/ SyncExit

SpecIntr == InitClock /\ [][NextIntr]_vars

(* ------------------------------------------------------------------ *)
(* The loop on the socket.  The kernel produces up to three            *)
(* notifications for every probe that was written, in the order of     *)
(* their times, and queues each at some later time or never.  The      *)
(* program sees the queue only inside synchronize, where pselect       *)
(* reports it readable and recv_timestamp reads from it, so the        *)
(* kernel's steps are taken there.  The probe written as number p is   *)
(* reported scheduled at 1 s + p ms, handed to the driver 100 ns and   *)
(* on the wire 31 us later, so every timestamp names its probe.  The   *)
(* clock is left out: after a pass of the loop in synchronize the wake *)
(* is either still too early or not.                                   *)
(* ------------------------------------------------------------------ *)
ProbeSched(p) == T(1, p * 1000000)
ProbeDrv(p) == T(1, p * 1000000 + 100)
ProbeHw(p) == T(1, p * 1000000 + 31000)

ProbeNotifications(p) == {SchedMsg(ProbeSched(p)), SwMsg(ProbeDrv(p)), HwMsg(ProbeHw(p))}

\* the top of the loop, for as long as probes are followed
SockTop ==
    /\ probes < MaxProbes
    /\ LoopTop(MaxProbes)

\* the time a notification reports
MsgTime(m) == IF m.ts[2] # Zero THEN m.ts[2].tv_nsec ELSE m.ts[0].tv_nsec

\* the notification the kernel produces next: they are produced in the order of
\* their times
Oldest(msgs) == CHOOSE m \in msgs : \A o \in msgs : MsgTime(m) <= MsgTime(o)

\* the kernel appends its next notification to the error queue
KernelReport ==
    /\ pc = "sync"
    /\ pending # {}
    /\ Len(errq) < MaxQueue
    /\ errq' = Append(errq, Oldest(pending))
    /\ pending' = pending \ {Oldest(pending)}
    /\ UNCHANGED <<mainVars, syncVars, probes, io>>

\* the kernel produces no timestamp for a stage (no hardware timestamp for the
\* packet, the queue's buffer full)
KernelDrop ==
    /\ pc = "sync"
    /\ pending # {}
    /\ pending' = pending \ {Oldest(pending)}
    /\ UNCHANGED <<mainVars, syncVars, errq, probes, io>>

\* one pass of the loop in synchronize with the queue not empty: pselect returns at
\* once with fds > 0, recv_timestamp does its one recvmsg, and the error is tested
WaitReady ==
    /\ pc = "sync"
    /\ errq # <<>>
    /\ tstamps' = RecvTimestamp(tstamps, Head(errq))
    /\ errq' = Tail(errq)
    /\ io' = [io EXCEPT !.wait = "ok"]
    /\ pc' \in {"sync", "write"}
    /\ UNCHANGED <<threshold, snapshot, seqid, payload, num_packets, stats, cyc, report,
                   exitStatus, stoppedAt, injected, fed, firstSlot, latEvals, firstFed,
                   inExtrema, syncVars, pending, probes>>

\* passes with the queue empty: pselect times out until the wake is not too early
WaitTimeout ==
    /\ pc = "sync"
    /\ errq = <<>>
    /\ io' = [io EXCEPT !.wait = "ok"]
    /\ pc' = "write"
    /\ UNCHANGED <<threshold, snapshot, seqid, payload, num_packets, stats, tstamps, cyc,
                   report, exitStatus, stoppedAt, injected, fed, firstSlot, latEvals, firstFed,
                   inExtrema, syncVars, errq, pending, probes>>

\* mutant: a failed wait ends the process
WaitFails_Fatal ==
    /\ pc = "sync"
    /\ io' = [io EXCEPT !.wait = "failed"]
    /\ pc' = "exiting"
    /\ UNCHANGED <<threshold, snapshot, seqid, payload, num_packets, stats, tstamps, cyc,
                   report, exitStatus, stoppedAt, injected, fed, firstSlot, latEvals, firstFed,
                   inExtrema, syncVars, errq, pending, probes>>

\* pselect fails with an errno other than EINTR: perror and return
WaitFails ==
    /\ pc = "sync"
    /\ io' = [io EXCEPT !.wait = "failed"]
    /\ pc' = "write"
    /\ UNCHANGED <<threshold, snapshot, seqid, payload, num_packets, stats, tstamps, cyc,
                   report, exitStatus, stoppedAt, injected, fed, firstSlot, latEvals, firstFed,
                   inExtrema, syncVars, errq, pending, probes>>

WriteOutcomes == {"ok", "short", "failed"}

\* write(sockfd, buf, sizeof(buf)) returns sizeof(buf), less, or -1; the last two are
\* logged.  A datagram that left the socket is reported by the kernel.
SockTransmit(outcome) ==
    /\ pc = "write"
    /\ io' = [io EXCEPT !.write = outcome]
    /\ probes' = probes + 1
    /\ pending' = IF outcome = "ok" THEN pending \cup ProbeNotifications(probes) ELSE pending
    /\ pc' = "eval"
    /\ UNCHANGED <<threshold, snapshot, seqid, payload, num_packets, stats, tstamps, cyc,
                   report, exitStatus, stoppedAt, injected, fed, firstSlot, latEvals, firstFed,
                   inExtrema, syncVars, errq>>

InitSockLoop == InitMain(0, FALSE) /\ InitSync(250000000, 100000, T(0, 0)) /\ InitSock

NextSock ==
    \/ SockTop
    \/ KernelReport
    \/ KernelDrop
    \/ WaitReady
    \/ WaitTimeout
    \/ WaitFails
    \/ \E o \in WriteOutcomes : SockTransmit(o)
    \/ Evaluate
    \/ UpdMinMax
    \/ UpdSample
    \/ UpdBins
    \/ AdvSeq
    \/ AdvReset
    \/ AdvCount

SpecSock == InitSockLoop /\ [][NextSock]_vars

(* ------------------------------------------------------------------ *)
(* Vocabulary of the properties, stated without the program's own      *)
(* operators                                                           *)
(* ------------------------------------------------------------------ *)
AbsentStages(rec) == {i \in Stages : rec[i].tv_sec = 0}

\* wireDeparture - scheduled in nanoseconds
NsBetween(from, to) == (to.tv_sec - from.tv_sec) * BILLION + (to.tv_nsec - from.tv_nsec)

\* q is d / 1000 truncated toward zero
IsTruncatedMicros(q, d) ==
    IF d >= 0 THEN 1000 * q <= d /\ d < 1000 * q + 1000
    ELSE d <= 1000 * q /\ 1000 * q - 1000 < d

\* the truncated latency of rec is above thr (thr >= 0)
LatencyAbove(rec, thr) == NsBetween(rec[0], rec[2]) >= 1000 * (thr + 1)

\* the step of main that evaluates the record of the previous probe
EvaluationStep == pc = "eval" /\ pc' \in LoopPcs /\ num_packets # 0

Pristine ==
    /\ min_lat = LONG_MAX
    /\ max_lat = LONG_MIN
    /\ \A i \in 0 .. NSAMPLES - 1 : samples[i] = 0
    /\ \A i \in 0 .. NBINS - 1 : bins[i] = 0

(* ------------------------------------------------------------------ *)
(* Properties                                                          *)
(* ------------------------------------------------------------------ *)

\* C1: with a snapshot sink configured, an evaluation requests a snapshot iff a stage
\* timestamp is absent or (threshold > 0 and latency > threshold); it requests at most
\* one, and nothing else in the iteration requests another.
C1_SnapshotTruthTable ==
    [][ /\ (EvaluationStep /\ snapshot) =>
             /\ cyc'.evaluated
             /\ cyc'.snaps \in {0, 1}
             /\ (cyc'.snaps = 1) <=>
                  \/ AbsentStages(tstamps) # {}
                  \/ (threshold > 0 /\ LatencyAbove(tstamps, threshold))
        /\ (pc \in LoopPcs \ {"eval", "top"} /\ pc' \in LoopPcs) => cyc' = cyc ]_vars

\* C1 witness: threshold 100, latency 150, all stages present, one snapshot requested
C1_Witness ==
    /\ snapshot /\ threshold = 100
    /\ cyc.evaluated /\ cyc.hasLat /\ cyc.lat = 150 /\ cyc.snaps = 1

\* C3: an evaluation that finds k >= 1 stages absent writes exactly one diagnostic per
\* absent stage, requests a snapshot whenever a sink is configured, produces no latency
\* and ends the iteration; no step of such an iteration touches min/max, the window
\* or the histogram.
C3_MissingStages ==
    [][ /\ (EvaluationStep /\ AbsentStages(tstamps) # {}) =>
             /\ cyc'.diag = AbsentStages(tstamps)
             /\ Cardinality(cyc'.diag) = Cardinality(AbsentStages(tstamps))
             /\ (snapshot => cyc'.snaps = 1)
             /\ ~cyc'.hasLat
             /\ pc' = "top"
             /\ UNCHANGED stats
        /\ (pc \in {"top", "sync", "write"} /\ pc' \in LoopPcs) => UNCHANGED stats ]_vars

\* C3 witness: only scheduled present, threshold 0, sink configured: two diagnostics
\* and one snapshot
C3_Witness ==
    /\ pc = "top" /\ cyc.evaluated /\ cyc.diag = {1, 2} /\ ~cyc.hasLat
    /\ snapshot /\ threshold = 0 /\ cyc.snaps = 1

\* C4: the latency of the first evaluation that produces one never reaches
\* update_statistics: until a second latency is produced, min/max, the window and the
\* histogram are as constructed.
C4_FirstCycleExcluded == ~firstFed /\ (latEvals <= 1 => Pristine /\ fed = <<>>)

\* C4 witness: the first latency, all stages present and below the threshold, after an
\* anomalous evaluation; the iteration is past the point of update_statistics
C4_Witness ==
    /\ latEvals = 1 /\ pc = "adv_reset" /\ num_packets = 1
    /\ cyc.hasLat /\ threshold = 100 /\ cyc.lat = 31 /\ cyc.snaps = 0

\* the bucket of the claim: the smallest i in 0..10 with L < 32 * 2^i, else 11
ClaimedBucket(L) ==
    IF \E i \in 0 .. 10 : L < 32 * (2 ^ i)
      THEN CHOOSE i \in 0 .. 10 : L < 32 * (2 ^ i) /\ \A j \in 0 .. i - 1 : ~(L < 32 * (2 ^ j))
      ELSE 11

\* C5: update_statistics increments exactly the claimed bucket of the latency, by one,
\* and leaves every other bucket unchanged.
C5_OneBucket ==
    [][ /\ (pc = "upd_bins" /\ pc' = "adv_seq") =>
             /\ bins'[ClaimedBucket(cyc.lat)] = bins[ClaimedBucket(cyc.lat)] + 1
             /\ \A i \in 0 .. NBINS - 1 : i # ClaimedBucket(cyc.lat) => bins'[i] = bins[i]
        /\ (pc \in {"upd_minmax", "upd_sample"} /\ pc' \in LoopPcs) => bins' = bins ]_vars

\* C5 witness: 32768 us was counted into bucket 11
C5_Witness == pc = "adv_seq" /\ cyc.hasLat /\ cyc.lat = 32768 /\ bins[11] = 1

\* the other boundary latencies of C5, and a negative one, are counted too
C5_ReachNegative == pc = "adv_seq" /\ cyc.lat = -1 /\ bins[0] = 1
C5_Reach31 == pc = "adv_seq" /\ cyc.lat = 31 /\ bins[0] = 1
C5_Reach32 == pc = "adv_seq" /\ cyc.lat = 32 /\ bins[1] = 1
C5_Reach32767 == pc = "adv_seq" /\ cyc.lat = 32767 /\ bins[10] = 1

\* C2: when all three stage timestamps were delivered by notifications, the evaluation
\* treats the record as fully present and its latency is (wireDeparture - scheduled)
\* in nanoseconds divided by 1000, truncated toward zero.
C2_DeliveredIsPresent ==
    [][ (EvaluationStep /\ \A i \in Stages : injected[i] # <<>>) =>
           /\ cyc'.hasLat
           /\ IsTruncatedMicros(cyc'.lat, NsBetween(injected[0][1], injected[2][1])) ]_vars

\* the part of C2 the program does satisfy: timestamps whose seconds field is not zero
C2_NonZeroSeconds ==
    [][ (EvaluationStep /\ \A i \in Stages : injected[i] # <<>> /\ injected[i][1].tv_sec # 0) =>
           /\ cyc'.hasLat
           /\ IsTruncatedMicros(cyc'.lat, NsBetween(injected[0][1], injected[2][1])) ]_vars

\* the last n entries of a sequence
LastN(sq, n) == [i \in 1 .. n |-> sq[Len(sq) - n + i]]

\* C6: a report after k >= 1 recorded samples (the signal arriving between iterations)
\* takes the median over n = min(k, 1024) entries, which are the n most recently
\* recorded samples, and reports the element at index n/2 of their ascending sort.
C6_MedianOverRecorded ==
    (report.printed = 1 /\ stoppedAt = "top" /\ Len(fed) >= 1) =>
        LET n == Min(Len(fed), NSAMPLES)
            recent == SortAsc(LastN(fed, n))
        IN /\ report.full
           /\ report.n = n
           /\ report.sorted = recent
           /\ report.median = recent[(n \div 2) + 1]

\* C8: a report produced when no sample has been recorded (the signal arriving between
\* iterations) holds the packet count only; min/median/max are reported only when a
\* sample has been recorded, so never as the initial sentinels.
C8_NoSamplesNoStatistics ==
    (report.printed = 1 /\ stoppedAt = "top") =>
        /\ fed = <<>> => ~report.full
        /\ report.full => (Len(fed) >= 1 /\ report.min # LONG_MAX /\ report.max # LONG_MIN)

\* C7: while the loop runs, the window holds exactly the most recent min(c, 1024) of
\* the c samples recorded so far, in successive slots modulo 1024 counted from the slot
\* of the first one; every other slot was never written.
C7_WindowHoldsRecent ==
    (pc \in LoopPcs /\ fed # <<>>) =>
        LET c == Len(fed)
            m == Min(c, NSAMPLES)
            lastSlot == (firstSlot + c - 1) % NSAMPLES
        IN \A i \in 0 .. NSAMPLES - 1 :
              LET age == (lastSlot - i + NSAMPLES) % NSAMPLES
              IN samples[i] = IF age < m THEN fed[c - age] ELSE 0

\* C7 witness: after 1025 samples the first one is gone and the 1024 later ones are
\* all in the window
C7_Witness ==
    /\ Len(fed) = NSAMPLES + 1
    /\ pc = "top"
    /\ \A i \in 0 .. NSAMPLES - 1 : samples[i] # fed[1]
    /\ \A j \in 2 .. NSAMPLES + 1 : \E i \in 0 .. NSAMPLES - 1 : samples[i] = fed[j]

\* C9: once a signal has arrived at any point of the loop, no probe is transmitted any
\* more, the report is eventually produced, never more than once, and the process
\* ends with EXIT_SUCCESS.
C9_SignalStopsAndReports ==
    /\ [][stoppedAt # "" => ~Transmit]_vars
    /\ [](report.printed <= 1)
    /\ [](stoppedAt # "" => <>[](pc = "done" /\ report.printed = 1 /\ exitStatus = EXIT_SUCCESS))

\* C9 witness: the signal arrived inside update_statistics, the report was produced
\* once and the process ended with success
C9_Witness ==
    /\ stoppedAt = "upd_sample" /\ pc = "done"
    /\ report.printed = 1 /\ exitStatus = EXIT_SUCCESS

Abs(x) == IF x < 0 THEN -x ELSE x

\* C10: under negligible load the starts of consecutive cycles differ from the period
\* by at most 100 microseconds, for every period and addend.
C10_PeriodicStarts ==
    Len(starts) = 2 => Abs(NsBetween(starts[1], starts[2]) - period) <= 100000

\* the same for a period that divides one second and an addend above the early limit
C10_DividingPeriod ==
    (Len(starts) = 2 /\ period \in {1000000, 250000000} /\ addend = 100000) =>
        Abs(NsBetween(starts[1], starts[2]) - period) <= 100000

\* the record the claimed collector rule leaves behind for message m
ClaimedRecord(rec, m) ==
    IF ~(m.cmsgTs /\ m.cmsgErr) THEN rec
    ELSE IF m.ee_info = "SCM_TSTAMP_SCHED" THEN [rec EXCEPT ![0] = m.ts[0]]
    ELSE IF m.ee_info = "SCM_TSTAMP_SND"
      THEN [i \in Stages |->
              IF i = 1 /\ m.ts[0] # Zero THEN m.ts[0]
              ELSE IF i = 2 /\ m.ts[2] # Zero THEN m.ts[2]
              ELSE rec[i]]
    ELSE rec

\* C11: every notification read by the collector changes the record exactly as the
\* rule says: "entered scheduler" sets scheduled = triple[0]; "handed to driver" with
\* triple[0] non-zero sets driverHandoff = triple[0], with triple[2] non-zero sets
\* wireDeparture = triple[2]; anything else, and a message lacking either ancillary
\* piece, leaves the record unchanged.
C11_CollectorRule ==
    [][\A m \in Messages : Notify(m) => tstamps' = ClaimedRecord(tstamps, m)]_vars

\* every triple entry of m is zero or has a seconds field that is not zero
WholeSeconds(m) == \A i \in Stages : m.ts[i] = Zero \/ m.ts[i].tv_sec # 0

\* the part of C11 the program does satisfy: triples whose entries are past the first
\* second of their clock
C11_WholeSeconds ==
    [][\A m \in Messages :
          (Notify(m) /\ WholeSeconds(m)) => tstamps' = ClaimedRecord(tstamps, m)]_vars

\* C12: an invocation of recv_timestamp reads the error queue until it is empty: when
\* it returns, none of the notifications queued when it started is still unread.
C12_DrainsQueue == [][WaitReady => errq' = <<>>]_vars

\* C13: whenever synchronize returns without a wait failure, the clock is at most 50
\* microseconds before the target, also when a wait was interrupted (EINTR) on the
\* first or on a later pass of the loop.
C13_NotTooEarly == spc = "return" => SyncError(clock, next) >= -50000

\* the part of C13 the program does satisfy: returns after a pass that measured the error
C13_AfterMeasurement ==
    (spc = "return" /\ error # <<>>) => SyncError(clock, next) >= -50000

\* C14: every iteration, also one whose evaluation found a stage absent, ends with the
\* record reset, so the record is empty whenever the loop is at its top, about to wait.
C14_RecordEmptyAtTop == pc = "top" => tstamps = EmptyRecord

\* the part of C14 the program does satisfy: an iteration that evaluates nothing or
\* finds all three stages present ends with the record empty
C14_ResetAfterPresent == [][(pc = "adv_count" /\ pc' = "top") => tstamps' = EmptyRecord]_vars

RECURSIVE SumTo(_, _)
SumTo(f, i) == IF i < 0 THEN 0 ELSE f[i] + SumTo(f, i - 1)

\* the sum of the 12 histogram counts
SumBins == SumTo(bins, NBINS - 1)

\* C15: the packet total of the report (the signal arriving between iterations) equals
\* the number of latency samples recorded, which is the sum of the 12 bucket counts.
C15_CountIsSamples ==
    (report.printed = 1 /\ stoppedAt = "top") =>
        /\ report.count = Len(fed)
        /\ report.count = SumBins

\* the part of C15 the program does satisfy: between iterations the samples recorded
\* are as many as the histogram counts
C15_SamplesAreBuckets == pc = "top" => Len(fed) = SumBins

\* latency L lies in a printed row: low <= L <= high, or L > low for the last row
InRow(row, L) == IF row.open THEN L > row.low ELSE row.low <= L /\ L <= row.high

\* the boundary latencies of the histogram and their neighbours
BoundaryLatencies ==
    {0} \cup UNION {{32 * (2 ^ i) - 1, 32 * (2 ^ i), 32 * (2 ^ i) + 1} : i \in 0 .. 10}

\* C16: the range the report prints for bucket i holds exactly the non-negative
\* latencies counted into bucket i: for every recorded latency and every boundary
\* value, the row that contains it is the row of the bucket that counts it.
C16_RowsMatchBuckets ==
    report.full =>
        \A L \in {fed[k] : k \in 1 .. Len(fed)} \cup BoundaryLatencies :
            L >= 0 => \A i \in 0 .. NBINS - 1 : InRow(report.rows[i], L) <=> ClaimedBucket(L) = i

\* the part of C16 the program does satisfy: the printed rows are pairwise disjoint and
\* cover the latencies from 0 on
C16_RowsPartition ==
    report.full =>
        \A L \in {fed[k] : k \in 1 .. Len(fed)} \cup BoundaryLatencies :
            L >= 0 => Cardinality({i \in 0 .. NBINS - 1 : InRow(report.rows[i], L)}) = 1

C17_ReachShortWrite == pc = "adv_count" /\ io.wait = "failed" /\ io.write = "short" /\ cyc.evaluated

\* the probe a reported timestamp belongs to
ProbeOf(t) == t.tv_nsec \div 1000000

\* C18: every latency that reaches the statistics is computed from a scheduled and a
\* wire timestamp reported for one and the same probe, also when notifications of a
\* probe are missing or are read during a later cycle's wait.
C18_SameProbe ==
    [][(pc = "eval" /\ pc' = "upd_minmax") => ProbeOf(tstamps[0]) = ProbeOf(tstamps[2])]_vars

\* the part of C18 the program does satisfy: the record evaluated after the second
\* write, which only the first probe's notifications can have filled
C18_FirstRecord ==
    [][(pc = "eval" /\ probes = 2 /\ AllPresent(tstamps)) =>
           ProbeOf(tstamps[0]) = ProbeOf(tstamps[2])]_vars

\* C19: the target of a synchronize call is strictly later than the target of the call
\* before it (which returned after measuring its error, at most 50 us early), also when
\* the loop body takes no time.
C19_TargetsAdvance ==
    [][(SyncEnter /\ syncCalls >= 1 /\ error # <<>>) => SyncError(next', next) > 0]_vars

\* the part of C19 the program does satisfy: an addend of at least the early limit
C19_AddendAboveEarlyLimit ==
    [][(SyncEnter /\ syncCalls >= 1 /\ error # <<>> /\ addend >= 50000) =>
           SyncError(next', next) > 0]_vars

\* C20: wherever in the loop the signal arrives, the report is produced from a
\* consistent state: the samples reflected in min/max, the samples written to the
\* window and the sum of the histogram counts are equal in number, and every sample
\* written lies in the slots 0 .. n - 1 the report reads.
C20_ConsistentReport ==
    report.printed = 1 =>
        /\ inExtrema = Len(fed)
        /\ Len(fed) = SumBins
        /\ \A k \in 1 .. Len(fed) : (firstSlot + k - 1) % NSAMPLES < report.n

\* the part of C20 the program does satisfy: the three counts agree when the signal
\* arrives outside update_statistics
C20_CountsOutsideUpdate ==
    (report.printed = 1 /\ stoppedAt \notin {"upd_sample", "upd_bins"}) =>
        /\ inExtrema = Len(fed)
        /\ Len(fed) = SumBins

====
